---- MODULE Spec2Model ----
(***************************************************************************)
(* Model of the journal backend (vent_backend).  The repository holds two  *)
(* versions of the same express server:                                    *)
(*   src/unnamed/part_000  the long version (retry, backoff, fallback)     *)
(*   src/server.js         the short version (fallback on 429 only)        *)
(* One request is handled at a time; `ver` says which file is running.     *)
(* Definitions ending in A model src/unnamed/part_000, those ending in S   *)
(* model src/server.js.                                                    *)
(***************************************************************************)
EXTENDS Integers, Sequences, FiniteSets, TLC

VARIABLES
    ver,            \* which source file is the running program
    hpc,            \* position of the route handler
    route,          \* the route of the request being handled
    field,          \* the entry/entries field of the request body
    userMessage,    \* second argument of callOpenRouter
    responses,      \* HTTP responses sent for the request, in order
    cpc,            \* position of callOpenRouter
    modelIndex,     \* argument modelIndex of the current/next invocation
    retryCount,     \* argument retryCount of the current/next invocation
    delay,          \* milliseconds of the sleep before the next invocation
    last,           \* the latest remote attempt: its arguments and outcome
    result,         \* what callOpenRouter returned or threw
    attempted,      \* the (modelIndex, retryCount) pairs fetched so far
    nAttempts,      \* number of fetches of this call (saturates at MaxAttempts)
    repeated,       \* some (modelIndex, retryCount) pair was fetched twice
    all429,         \* every attempt of this call so far got a parsable 429
    file,           \* /transcribe: the uploaded temp file exists on disk
    transcript,     \* /transcribe: what transcribeAudio returned or threw
    unlinkTried     \* /transcribe: fs.unlink was called on the temp file

vars == <<ver, hpc, route, field, userMessage, responses, cpc, modelIndex,
          retryCount, delay, last, result, attempted, nAttempts, repeated,
          all429, file, transcript, unlinkTried>>

callVars == <<cpc, modelIndex, retryCount, delay, last, result, attempted,
              nAttempts, repeated, all429>>

fileVars == <<file, transcript, unlinkTried>>

(***************************************************************************)
(* Bounds and program constants                                            *)
(***************************************************************************)
MaxAttempts == 10          \* nAttempts stops counting here

maxRetries == 2
baseDelay == 3000
switchDelay == 2000
EntryLimit == 10000
EntriesLimit == 50000

MODEL_FALLBACKS ==
    << "deepseek/deepseek-r1:free",
       "google/gemini-2.0-flash-exp:free",
       "meta-llama/llama-3.2-3b-instruct:free",
       "nousresearch/hermes-3-llama-3.1-405b:free",
       "openai/gpt-3.5-turbo" >>

N == Len(MODEL_FALLBACKS)

Versions == {"part_000", "server"}

(***************************************************************************)
(* Text.  A text is a sequence of tokens; " " and "\n" are white space.    *)
(* An error message is a text too, and String.prototype.includes is        *)
(* containment of a token.                                                 *)
(***************************************************************************)
WhiteSpace == {" ", "\n"}

Includes(msg, tok) == \E i \in 1..Len(msg) : msg[i] = tok

RECURSIVE TrimStart(_)
TrimStart(s) ==
    IF s = <<>> THEN <<>>
    ELSE IF Head(s) \in WhiteSpace THEN TrimStart(Tail(s)) ELSE s

RECURSIVE TrimEnd(_)
TrimEnd(s) ==
    IF s = <<>> THEN <<>>
    ELSE IF s[Len(s)] \in WhiteSpace THEN TrimEnd(SubSeq(s, 1, Len(s) - 1))
    ELSE s

Trim(s) == TrimEnd(TrimStart(s))

(***************************************************************************)
(* JavaScript values that reach the code: [t |-> typeof, s |-> text].      *)
(***************************************************************************)
Undefined == [t |-> "undefined", s |-> <<>>]
Number42 == [t |-> "number", s |-> <<>>]
Str(s) == [t |-> "string", s |-> s]

Truthy(v) ==
    CASE v.t = "undefined" -> FALSE
      [] v.t = "number" -> TRUE
      [] v.t = "string" -> v.s # <<>>

(***************************************************************************)
(* The upstream's answers.  A response is a status and a body; the body is *)
(* either not JSON, or a JSON document of which the code reads             *)
(* error.message and choices[0].message.content.                           *)
(***************************************************************************)
Statuses == {200, 400, 429, 500}

Ok(status) == status >= 200 /\ status <= 299

statusText(status) ==
    CASE status = 200 -> <<"OK">>
      [] status = 400 -> <<"Bad Request">>
      [] status = 429 -> <<"Too Many Requests">>
      [] status = 500 -> <<"Internal Server Error">>

\* shape: how far the path choices[0].message exists in the document
Shapes == {"noChoices", "noFirstChoice", "noMessage", "message"}

Body(json, errmsg, shape, content) ==
    [json |-> json, errmsg |-> errmsg, shape |-> shape, content |-> content]

NotJson == Body(FALSE, Undefined, "noChoices", Undefined)

ErrorMessages ==
    { Undefined,
      Str(<<"Provider returned error">>),
      Str(<<"upstream", "fetch failed">>) }

Contents ==
    { Undefined, Number42, Str(<<>>), Str(<<"Text">>),
      Str(<<"[SENTIMENT: negative]", "\n", "Text">>) }

\* documents of an error response: error.message present or not
ErrorBodies == { Body(TRUE, m, "noChoices", Undefined) : m \in ErrorMessages }

\* documents of a completion: choices[0].message.content present or not
CompletionBodies ==
    { Body(TRUE, Undefined, sh, Undefined) : sh \in Shapes \ {"message"} }
    \cup { Body(TRUE, Undefined, "message", c) : c \in Contents }

\* the code reads error.message of responses that are not ok only, and
\* choices of ok responses only
BodiesOf(status) ==
    {NotJson} \cup (IF Ok(status) THEN CompletionBodies ELSE ErrorBodies)

\* the raw text of a body, as response.text() gives it
bodyText(body) ==
    IF ~body.json THEN <<"<html>">>
    ELSE IF body.errmsg.t = "string" THEN <<"{error:">> \o body.errmsg.s
    ELSE IF body.shape = "message" /\ body.content.t = "string"
         THEN <<"{choices:">> \o body.content.s
    ELSE <<"{}">>

\* an outcome of fetch: a rejection (network failure) or a response
NetworkFailure ==
    [net |-> TRUE, status |-> 0, body |-> NotJson]

Response(status, body) ==
    [net |-> FALSE, status |-> status, body |-> body]

Outcomes ==
    {NetworkFailure}
    \cup UNION { { Response(st, b) : b \in BodiesOf(st) } : st \in Statuses }

NoOutcome == [net |-> FALSE, status |-> 0, body |-> NotJson]

(***************************************************************************)
(* Errors are identified by their message.                                 *)
(***************************************************************************)
FetchFailed == <<"fetch failed">>
JsonSyntaxError == <<"Unexpected token">>
RateLimitError ==
    <<"Rate limit exceeded", "Free tier models are currently busy",
      "Please try again in a few minutes">>
InvalidStructureError == <<"Invalid response structure from OpenRouter API">>
NotAFunctionError == <<"is not a function">>

ApiErrorA(status, errorMessage) ==
    <<"OpenRouter API error", ToString(status), "-">> \o errorMessage

ApiErrorS(status, errText) ==
    <<"OpenRouter failed", ToString(status), "-">> \o errText

(***************************************************************************)
(* What one invocation of callOpenRouter ends in: a recursive invocation   *)
(* after a sleep, a returned value, or a thrown error.                     *)
(***************************************************************************)
Recurse(rc, mi, ms) ==
    [kind |-> "recurse", retryCount |-> rc, modelIndex |-> mi, delay |-> ms,
     value |-> Undefined, error |-> <<>>]

Return(v) ==
    [kind |-> "return", retryCount |-> 0, modelIndex |-> 0, delay |-> 0,
     value |-> v, error |-> <<>>]

Throw(msg) ==
    [kind |-> "throw", retryCount |-> 0, modelIndex |-> 0, delay |-> 0,
     value |-> Undefined, error |-> msg]

NoResult ==
    [kind |-> "none", retryCount |-> 0, modelIndex |-> 0, delay |-> 0,
     value |-> Undefined, error |-> <<>>]

RECURSIVE Pow2(_)
Pow2(n) == IF n = 0 THEN 1 ELSE 2 * Pow2(n - 1)

\* baseDelay * Math.pow(2, retryCount)
backoffDelay(rc) == baseDelay * Pow2(rc)

\* hasNextModelA with the bound of the chain off by one (faulty variant)
hasNextModelA_OffByOne(mi) == mi < Len(MODEL_FALLBACKS)

\* modelIndex < MODEL_FALLBACKS.length - 1
hasNextModelA(mi) == mi < Len(MODEL_FALLBACKS) - 1

hasNextModelS(mi) == mi < Len(MODEL_FALLBACKS) - 1

\* the branch of part_000 taken on status 429
onRateLimitA(rc, mi) ==
    IF hasNextModelA(mi) THEN Recurse(0, mi + 1, switchDelay)
    ELSE IF rc < maxRetries THEN Recurse(rc + 1, 0, backoffDelay(rc))
    ELSE Throw(RateLimitError)

\* data.error?.message || response.statusText
errorMessageA(out) ==
    IF Truthy(out.body.errmsg) THEN out.body.errmsg.s
    ELSE statusText(out.status)

\* the branch of part_000 taken on a response that is not ok and not 429
onApiErrorA(rc, mi, out) ==
    IF out.status >= 500 /\ rc < maxRetries
    THEN Recurse(rc + 1, mi, backoffDelay(rc))
    ELSE Throw(ApiErrorA(out.status, errorMessageA(out)))

\* !data.choices || !data.choices[0] || !data.choices[0].message
invalidStructureA(body) == body.shape # "message"

\* part_000: the extraction of the completion text of an ok response
onSuccessA(body) ==
    IF invalidStructureA(body) THEN Throw(InvalidStructureError)
    ELSE Return(body.content)

\* the try block of part_000's callOpenRouter
tryBlockA(rc, mi, out) ==
    IF out.net THEN Throw(FetchFailed)
    ELSE IF ~out.body.json THEN Throw(JsonSyntaxError)
    ELSE IF out.status = 429 THEN onRateLimitA(rc, mi)
    ELSE IF ~Ok(out.status) THEN onApiErrorA(rc, mi, out)
    ELSE onSuccessA(out.body)

\* error.message.includes("fetch failed") && retryCount < maxRetries
retriesInCatchA(rc, msg) == Includes(msg, "fetch failed") /\ rc < maxRetries

\* the catch block of part_000's callOpenRouter
catchBlockA(rc, mi, r) ==
    IF r.kind # "throw" THEN r
    ELSE IF retriesInCatchA(rc, r.error)
         THEN Recurse(rc + 1, mi, backoffDelay(rc))
    ELSE r

invocationA(rc, mi, out) == catchBlockA(rc, mi, tryBlockA(rc, mi, out))

\* data.choices?.[0]?.message?.content || "No response"
contentOrPlaceholderS(body) ==
    IF body.shape = "message" /\ Truthy(body.content) THEN body.content
    ELSE Str(<<"No response">>)

\* server.js's callOpenRouter
invocationS(rc, mi, out) ==
    IF out.net THEN Throw(FetchFailed)
    ELSE IF out.status = 429 /\ hasNextModelS(mi)
         THEN Recurse(0, mi + 1, switchDelay)
    ELSE IF ~Ok(out.status)
         THEN Throw(ApiErrorS(out.status, bodyText(out.body)))
    ELSE IF ~out.body.json THEN Throw(JsonSyntaxError)
    ELSE Return(contentOrPlaceholderS(out.body))

(***************************************************************************)
(* The remote completion call                                              *)
(***************************************************************************)
Min(a, b) == IF a < b THEN a ELSE b

\* callOpenRouter(systemPrompt, userMessage): retryCount = 0, modelIndex = 0
StartCall(msg) ==
    /\ userMessage' = msg
    /\ cpc' = "fetch"
    /\ modelIndex' = 0
    /\ retryCount' = 0
    /\ delay' = 0
    /\ last' = [modelIndex |-> 0, retryCount |-> 0, out |-> NoOutcome]
    /\ result' = NoResult
    /\ attempted' = {}
    /\ nAttempts' = 0
    /\ repeated' = FALSE
    /\ all429' = TRUE

\* one invocation: the fetch with the current arguments, and what the code
\* does with its outcome `out`, which ends in r
Invoke(out, r) ==
    /\ cpc' = CASE r.kind = "recurse" -> "sleeping"
                [] r.kind = "return" -> "returned"
                [] r.kind = "throw" -> "thrown"
    /\ modelIndex' = IF r.kind = "recurse" THEN r.modelIndex ELSE modelIndex
    /\ retryCount' = IF r.kind = "recurse" THEN r.retryCount ELSE retryCount
    /\ delay' = r.delay
    /\ last' = [modelIndex |-> modelIndex, retryCount |-> retryCount,
                out |-> out]
    /\ result' = IF r.kind = "recurse" THEN NoResult ELSE r
    /\ attempted' = attempted \cup {<<modelIndex, retryCount>>}
    /\ repeated' = (repeated \/ <<modelIndex, retryCount>> \in attempted)
    /\ nAttempts' = Min(nAttempts + 1, MaxAttempts)
    /\ all429' = (all429 /\ ~out.net /\ out.status = 429 /\ out.body.json)

callOpenRouterA ==
    /\ ver = "part_000"
    /\ cpc = "fetch"
    /\ \E out \in Outcomes :
          Invoke(out, invocationA(retryCount, modelIndex, out))
    /\ UNCHANGED <<ver, hpc, route, field, userMessage, responses, fileVars>>

callOpenRouterS ==
    /\ ver = "server"
    /\ cpc = "fetch"
    /\ \E out \in Outcomes :
          Invoke(out, invocationS(retryCount, modelIndex, out))
    /\ UNCHANGED <<ver, hpc, route, field, userMessage, responses, fileVars>>

\* await sleep(ms) is over: the recursive invocation begins
sleep ==
    /\ cpc = "sleeping"
    /\ cpc' = "fetch"
    /\ UNCHANGED <<ver, hpc, route, field, userMessage, responses, modelIndex,
                   retryCount, delay, last, result, attempted, nAttempts,
                   repeated, all429, fileVars>>

(***************************************************************************)
(* Request fields.  The text of an entry is a sequence of runs, a run being *)
(* one character repeated n >= 1 times, so that the length limits of the    *)
(* routes can be reached.                                                   *)
(***************************************************************************)
Run(ch, n) == [ch |-> ch, n |-> n]

RECURSIVE length(_)
length(s) == IF s = <<>> THEN 0 ELSE Head(s).n + length(Tail(s))

RECURSIVE trimStartRuns(_)
trimStartRuns(s) ==
    IF s = <<>> THEN <<>>
    ELSE IF Head(s).ch \in WhiteSpace THEN trimStartRuns(Tail(s)) ELSE s

RECURSIVE trimEndRuns(_)
trimEndRuns(s) ==
    IF s = <<>> THEN <<>>
    ELSE IF s[Len(s)].ch \in WhiteSpace
         THEN trimEndRuns(SubSeq(s, 1, Len(s) - 1))
    ELSE s

\* String.prototype.trim on runs
trim(s) == trimEndRuns(trimStartRuns(s))

\* s.slice(0, k)
RECURSIVE slice(_, _)
slice(s, k) ==
    IF s = <<>> \/ k <= 0 THEN <<>>
    ELSE IF Head(s).n >= k THEN << Run(Head(s).ch, k) >>
    ELSE << Head(s) >> \o slice(Tail(s), k - Head(s).n)

EntryValues ==
    { Undefined, Number42, Str(<<>>),
      Str(<< Run(" ", 2) >>),
      Str(<< Run("\n", 1), Run(" ", 1) >>),
      Str(<< Run(" ", 1), Run("x", 3), Run("\n", 1) >>),
      Str(<< Run("x", EntryLimit + 1) >>),
      Str(<< Run("x", EntriesLimit), Run(" ", 1) >>) }

(***************************************************************************)
(* HTTP responses of the routes                                            *)
(***************************************************************************)
Http(status, error, message) ==
    [status |-> status, success |-> FALSE, error |-> error,
     message |-> message, text |-> Undefined, nature |-> ""]

Success(text, nature) ==
    [status |-> 200, success |-> TRUE, error |-> "", message |-> <<>>,
     text |-> text, nature |-> nature]

(***************************************************************************)
(* Sentiment tag.  A tag is one token of the completion text.              *)
(***************************************************************************)
PositiveTags == {"[SENTIMENT: positive]", "[sentiment:POSITIVE]"}
NegativeTags == {"[SENTIMENT: negative]", "[Sentiment:  Negative]"}

\* index of the first match of /\[SENTIMENT:\s*(positive|negative)\]/i, or 0
RECURSIVE firstTagFrom(_, _)
firstTagFrom(s, i) ==
    IF i > Len(s) THEN 0
    ELSE IF s[i] \in PositiveTags \cup NegativeTags THEN i
    ELSE firstTagFrom(s, i + 1)

\* match[1]: the polarity as the tag spells it
capturedPolarity(tok) ==
    CASE tok = "[SENTIMENT: positive]" -> "positive"
      [] tok = "[sentiment:POSITIVE]" -> "POSITIVE"
      [] tok = "[SENTIMENT: negative]" -> "negative"
      [] tok = "[Sentiment:  Negative]" -> "Negative"

\* String.prototype.toLowerCase on the captured polarity
toLowerCase(w) ==
    CASE w \in {"positive", "POSITIVE"} -> "positive"
      [] w \in {"negative", "Negative"} -> "negative"

\* extractNature returning match[1] as spelled (faulty variant)
extractNature_AsSpelled(s) ==
    LET i == firstTagFrom(s, 1)
    IN  IF i = 0 THEN "positive" ELSE capturedPolarity(s[i])

extractNature(s) ==
    LET i == firstTagFrom(s, 1)
    IN  IF i = 0 THEN "positive" ELSE toLowerCase(capturedPolarity(s[i]))

\* aiResponse.replace(/\[SENTIMENT:\s*(positive|negative)\]\s*/i, "").trim()
cleanedAnalysis(s) ==
    LET i == firstTagFrom(s, 1)
    IN  IF i = 0 THEN Trim(s)
        ELSE Trim(SubSeq(s, 1, i - 1) \o TrimStart(SubSeq(s, i + 1, Len(s))))

(***************************************************************************)
(* Routes of src/unnamed/part_000                                          *)
(***************************************************************************)
\* !entry || typeof entry !== "string"
notAStringA(v) == ~Truthy(v) \/ v.t # "string"

\* isEmptyA with the length taken without trim() (faulty variant)
isEmptyA_NoTrim(v) == length(v.s) = 0

\* entry.trim().length === 0
isEmptyA(v) == length(trim(v.s)) = 0

Respond(r) == responses' = Append(responses, r)

\* the validation of /analyze, up to the call of callOpenRouter
analyzeA ==
    /\ ver = "part_000"
    /\ hpc = "idle"
    /\ route' = "analyze"
    /\ \E entry \in EntryValues :
          /\ field' = entry
          /\ IF notAStringA(entry)
             THEN /\ Respond(Http(400, "Invalid input",
                                  <<"Request body must contain an entry field">>))
                  /\ hpc' = "done"
                  /\ UNCHANGED <<userMessage, callVars>>
             ELSE IF isEmptyA(entry)
             THEN /\ Respond(Http(400, "Invalid input",
                                  <<"Journal entry cannot be empty">>))
                  /\ hpc' = "done"
                  /\ UNCHANGED <<userMessage, callVars>>
             ELSE /\ StartCall(IF length(entry.s) > EntryLimit
                               THEN Str(slice(entry.s, EntryLimit))
                               ELSE entry)
                  /\ hpc' = "awaitCall"
                  /\ UNCHANGED responses
    /\ UNCHANGED <<ver, fileVars>>

\* the catch block of /analyze and /recap
catchRouteA(msg, what) ==
    IF Includes(msg, "Rate limit exceeded")
    THEN Http(429, "Rate limit exceeded",
              <<"Too many requests. Please wait a moment and try again.">>)
    ELSE IF Includes(msg, "OpenRouter API error")
    THEN Http(502, "External API error",
              <<"Failed to communicate with AI service">>)
    ELSE Http(500, "Internal server error", what)

\* /analyze after callOpenRouter settled
analyzeResponseA(r) ==
    IF r.kind = "throw"
    THEN catchRouteA(r.error, <<"An unexpected error occurred while analyzing">>)
    ELSE IF r.value.t # "string"
    THEN catchRouteA(NotAFunctionError,
                     <<"An unexpected error occurred while analyzing">>)
    ELSE Success(Str(cleanedAnalysis(r.value.s)), extractNature(r.value.s))

analyzeResumeA ==
    /\ ver = "part_000"
    /\ hpc = "awaitCall"
    /\ route = "analyze"
    /\ cpc \in {"returned", "thrown"}
    /\ Respond(analyzeResponseA(result))
    /\ hpc' = "done"
    /\ UNCHANGED <<ver, route, field, userMessage, callVars, fileVars>>

\* the validation of /recap, up to the call of callOpenRouter
recapA ==
    /\ ver = "part_000"
    /\ hpc = "idle"
    /\ route' = "recap"
    /\ \E entries \in EntryValues :
          /\ field' = entries
          /\ IF notAStringA(entries)
             THEN /\ Respond(Http(400, "Invalid input",
                                  <<"Request body must contain an entries field">>))
                  /\ hpc' = "done"
                  /\ UNCHANGED <<userMessage, callVars>>
             ELSE IF isEmptyA(entries)
             THEN /\ Respond(Http(400, "Invalid input",
                                  <<"Entries cannot be empty">>))
                  /\ hpc' = "done"
                  /\ UNCHANGED <<userMessage, callVars>>
             ELSE IF length(entries.s) > EntriesLimit
             THEN /\ Respond(Http(400, "Invalid input",
                                  <<"Entries are too long">>))
                  /\ hpc' = "done"
                  /\ UNCHANGED <<userMessage, callVars>>
             ELSE /\ StartCall(entries)
                  /\ hpc' = "awaitCall"
                  /\ UNCHANGED responses
    /\ UNCHANGED <<ver, fileVars>>

\* /recap after callOpenRouter settled
recapResponseA(r) ==
    IF r.kind = "throw"
    THEN catchRouteA(r.error,
                     <<"An unexpected error occurred while generating your recap">>)
    ELSE Success(r.value, "")

recapResumeA ==
    /\ ver = "part_000"
    /\ hpc = "awaitCall"
    /\ route = "recap"
    /\ cpc \in {"returned", "thrown"}
    /\ Respond(recapResponseA(result))
    /\ hpc' = "done"
    /\ UNCHANGED <<ver, route, field, userMessage, callVars, fileVars>>

(***************************************************************************)
(* Routes of src/server.js                                                 *)
(***************************************************************************)
\* !entry || typeof entry !== "string" || !entry.trim()
invalidEntryS(v) ==
    ~Truthy(v) \/ v.t # "string" \/ ~Truthy(Str(trim(v.s)))

\* the catch block of /analyze and /recap: status 500 with err.message
catchRouteS(msg) == Http(500, "Internal error", msg)

analyzeS ==
    /\ ver = "server"
    /\ hpc = "idle"
    /\ route' = "analyze"
    /\ \E entry \in EntryValues :
          /\ field' = entry
          /\ IF invalidEntryS(entry)
             THEN /\ Respond(Http(400, "Invalid input",
                                  <<"Provide a valid entry string.">>))
                  /\ hpc' = "done"
                  /\ UNCHANGED <<userMessage, callVars>>
             ELSE /\ StartCall(entry)
                  /\ hpc' = "awaitCall"
                  /\ UNCHANGED responses
    /\ UNCHANGED <<ver, fileVars>>

analyzeResponseS(r) ==
    IF r.kind = "throw" THEN catchRouteS(r.error)
    ELSE IF r.value.t # "string" THEN catchRouteS(NotAFunctionError)
    ELSE Success(Str(cleanedAnalysis(r.value.s)), extractNature(r.value.s))

analyzeResumeS ==
    /\ ver = "server"
    /\ hpc = "awaitCall"
    /\ route = "analyze"
    /\ cpc \in {"returned", "thrown"}
    /\ Respond(analyzeResponseS(result))
    /\ hpc' = "done"
    /\ UNCHANGED <<ver, route, field, userMessage, callVars, fileVars>>

recapS ==
    /\ ver = "server"
    /\ hpc = "idle"
    /\ route' = "recap"
    /\ \E entries \in EntryValues :
          /\ field' = entries
          /\ IF invalidEntryS(entries)
             THEN /\ Respond(Http(400, "Invalid input",
                                  <<"Entries string required.">>))
                  /\ hpc' = "done"
                  /\ UNCHANGED <<userMessage, callVars>>
             ELSE /\ StartCall(entries)
                  /\ hpc' = "awaitCall"
                  /\ UNCHANGED responses
    /\ UNCHANGED <<ver, fileVars>>

recapResponseS(r) ==
    IF r.kind = "throw" THEN catchRouteS(r.error) ELSE Success(r.value, "")

recapResumeS ==
    /\ ver = "server"
    /\ hpc = "awaitCall"
    /\ route = "recap"
    /\ cpc \in {"returned", "thrown"}
    /\ Respond(recapResponseS(result))
    /\ hpc' = "done"
    /\ UNCHANGED <<ver, route, field, userMessage, callVars, fileVars>>

(***************************************************************************)
(* /transcribe                                                             *)
(***************************************************************************)
\* what happens inside transcribeAudio: a failing step, or the parsed
\* document's text field
TranscribeOutcomes ==
    { [fail |-> f, text |-> Undefined] :
        f \in {"readFile", "fetch", "status", "json"} }
    \cup { [fail |-> "none", text |-> v] :
             v \in { Undefined, Number42, Str(<<>>), Str(<<" ", "\n">>),
                     Str(<<"hello", " ", "world">>) } }

TranscribeError(f) == <<"Transcription failed", f>>

\* return data.text || ""
transcribeAudio(o) ==
    IF o.fail # "none" THEN Throw(TranscribeError(o.fail))
    ELSE Return(IF Truthy(o.text) THEN o.text ELSE Str(<<>>))

\* part_000: req.file check, then the call of transcribeAudio(req.file.path)
transcribeA ==
    /\ ver = "part_000"
    /\ hpc = "idle"
    /\ route' = "transcribe"
    /\ \E hasFile \in BOOLEAN :
          IF ~hasFile
          THEN /\ Respond(Http(400, "No file uploaded",
                               <<"Please upload an audio file">>))
               /\ hpc' = "done"
               /\ UNCHANGED file
          ELSE /\ file' = "present"
               /\ hpc' = "awaitTranscribe"
               /\ UNCHANGED responses
    /\ UNCHANGED <<ver, field, userMessage, callVars, transcript, unlinkTried>>

\* part_000: transcribeAudio settled; a throw goes to the catch block
transcribeResumeA ==
    /\ ver = "part_000"
    /\ hpc = "awaitTranscribe"
    /\ \E o \in TranscribeOutcomes :
          LET r == transcribeAudio(o)
          IN  /\ transcript' = r
              /\ IF r.kind = "throw"
                 THEN /\ Respond(Http(500, "Internal server error",
                            <<"An error occurred while transcribing the audio file">>))
                      /\ hpc' = "done"
                 ELSE /\ hpc' = "unlink"
                      /\ UNCHANGED responses
    /\ UNCHANGED <<ver, route, field, userMessage, callVars, file, unlinkTried>>

\* part_000: await fs.unlink(req.file.path).catch(() => {}), then status 200
unlinkA ==
    /\ ver = "part_000"
    /\ hpc = "unlink"
    /\ unlinkTried' = TRUE
    /\ \E ok \in BOOLEAN : file' = IF ok THEN "removed" ELSE file
    /\ Respond(Success(transcript.value, ""))
    /\ hpc' = "done"
    /\ UNCHANGED <<ver, route, field, userMessage, callVars, transcript>>

\* server.js: req.file check, uploadedFile = req.file.path, transcribeAudio
transcribeS ==
    /\ ver = "server"
    /\ hpc = "idle"
    /\ route' = "transcribe"
    /\ \E hasFile \in BOOLEAN :
          IF ~hasFile
          THEN /\ Respond(Http(400, "Invalid input",
                               <<"Request must include an audio file">>))
               /\ hpc' = "done"
               /\ UNCHANGED file
          ELSE /\ file' = "present"
               /\ hpc' = "awaitTranscribe"
               /\ UNCHANGED responses
    /\ UNCHANGED <<ver, field, userMessage, callVars, transcript, unlinkTried>>

\* server.js: the response of /transcribe once transcribeAudio settled
transcribeResponseS(r) ==
    IF r.kind = "throw" THEN Http(500, "Transcription error", r.error)
    ELSE IF r.value.t # "string"
    THEN Http(500, "Transcription error", NotAFunctionError)
    ELSE IF ~Truthy(Str(Trim(r.value.s)))
    THEN Http(400, "Transcription failed",
              <<"Could not extract text from the audio file.">>)
    ELSE Success(r.value, "")

transcribeResumeS ==
    /\ ver = "server"
    /\ hpc = "awaitTranscribe"
    /\ \E o \in TranscribeOutcomes :
          LET r == transcribeAudio(o)
          IN  /\ transcript' = r
              /\ Respond(transcribeResponseS(r))
    /\ hpc' = "finally"
    /\ UNCHANGED <<ver, route, field, userMessage, callVars, file, unlinkTried>>

\* uploadedFileS with uploadedFile never assigned, left null (faulty variant)
uploadedFileS_NeverSet(reqFile) == "none"

\* server.js: the variable uploadedFile when the finally block runs
uploadedFileS(reqFile) == reqFile

\* server.js: finally { if (uploadedFile) await fs.unlink(...).catch(() => {}) }
finallyS ==
    /\ ver = "server"
    /\ hpc = "finally"
    /\ IF uploadedFileS(file) # "none"
       THEN /\ unlinkTried' = TRUE
            /\ \E ok \in BOOLEAN : file' = IF ok THEN "removed" ELSE file
       ELSE UNCHANGED <<unlinkTried, file>>
    /\ hpc' = "done"
    /\ UNCHANGED <<ver, route, field, userMessage, responses, callVars, transcript>>

(***************************************************************************)
(* The specification                                                       *)
(***************************************************************************)
Idle ==
    /\ hpc = "idle"
    /\ route = "none"
    /\ field = Undefined
    /\ userMessage = Undefined
    /\ responses = <<>>
    /\ cpc = "idle"
    /\ modelIndex = 0
    /\ retryCount = 0
    /\ delay = 0
    /\ last = [modelIndex |-> 0, retryCount |-> 0, out |-> NoOutcome]
    /\ result = NoResult
    /\ attempted = {}
    /\ nAttempts = 0
    /\ repeated = FALSE
    /\ all429 = TRUE
    /\ file = "none"
    /\ transcript = NoResult
    /\ unlinkTried = FALSE

Init == ver \in Versions /\ Idle

\* the request is over; the server waits for the next one
nextRequest ==
    /\ hpc = "done"
    /\ hpc' = "idle"
    /\ route' = "none"
    /\ field' = Undefined
    /\ userMessage' = Undefined
    /\ responses' = <<>>
    /\ cpc' = "idle"
    /\ modelIndex' = 0
    /\ retryCount' = 0
    /\ delay' = 0
    /\ last' = [modelIndex |-> 0, retryCount |-> 0, out |-> NoOutcome]
    /\ result' = NoResult
    /\ attempted' = {}
    /\ nAttempts' = 0
    /\ repeated' = FALSE
    /\ all429' = TRUE
    /\ file' = "none"
    /\ transcript' = NoResult
    /\ unlinkTried' = FALSE
    /\ UNCHANGED ver

Next ==
    \/ analyzeA
    \/ analyzeResumeA
    \/ recapA
    \/ recapResumeA
    \/ transcribeA
    \/ transcribeResumeA
    \/ unlinkA
    \/ callOpenRouterA
    \/ analyzeS
    \/ analyzeResumeS
    \/ recapS
    \/ recapResumeS
    \/ transcribeS
    \/ transcribeResumeS
    \/ finallyS
    \/ callOpenRouterS
    \/ sleep
    \/ nextRequest

Spec == Init /\ [][Next]_vars

(***************************************************************************)
(* Properties of callOpenRouter                                            *)
(***************************************************************************)
\* an invocation has just ended; `last` holds its arguments and outcome
AfterAttempt == cpc \in {"sleeping", "returned", "thrown"}

Got429 == ~last.out.net /\ last.out.status = 429

Got5xx == ~last.out.net /\ last.out.status >= 500

\* the call ended by throwing the rate-limit-exhausted error
RateLimitExhausted ==
    cpc = "thrown" /\ Includes(result.error, "Rate limit exceeded")

\* C1: in part_000, a call whose every attempt is answered 429 (with a body
\* that parses) makes one attempt per model of the chain, then maxRetries
\* retries, and after these N + maxRetries attempts it has failed with the
\* rate-limit-exhausted error; it makes no attempt beyond them.
C1_AllRateLimitedFails ==
    (ver = "part_000" /\ all429)
        => /\ nAttempts <= N + maxRetries
           /\ (nAttempts = N + maxRetries /\ AfterAttempt)
                 => RateLimitExhausted

\* C2: in part_000, a 429 (with a body that parses) on the last chain entry
\* with retryCount < maxRetries is followed by an attempt with retryCount + 1
\* on the same, last, entry.
C2_LastModelRetriedInPlace ==
    (ver = "part_000" /\ AfterAttempt /\ Got429 /\ last.out.body.json
       /\ last.modelIndex = N - 1 /\ last.retryCount < maxRetries)
        => /\ cpc = "sleeping"
           /\ retryCount = last.retryCount + 1
           /\ modelIndex = N - 1

\* C3: in both versions, every attempt made, and the attempt to come, uses an
\* index of the configured chain: 0 <= modelIndex < N.
C3_IndexInChain ==
    /\ \A p \in attempted : 0 <= p[1] /\ p[1] < N
    /\ cpc \in {"fetch", "sleeping"} => (0 <= modelIndex /\ modelIndex < N)

\* C3 witness: the whole chain was walked and the call goes on after an
\* answer to its last entry.
C3_Witness ==
    /\ cpc = "sleeping"
    /\ last.modelIndex = N - 1
    /\ \A i \in 0..(N - 1) : \E p \in attempted : p[1] = i

\* C4: in both versions, a 429 at modelIndex i < N - 1 is followed, after the
\* fixed pause, by an attempt at i + 1 with retryCount 0.
C4_NextModelOn429 ==
    (AfterAttempt /\ Got429 /\ last.modelIndex < N - 1)
        => /\ cpc = "sleeping"
           /\ modelIndex = last.modelIndex + 1
           /\ retryCount = 0
           /\ delay = switchDelay

\* the attempt made in this step is answered with a completion text
SuccessWithText(out) ==
    /\ ~out.net
    /\ Ok(out.status)
    /\ out.body.json
    /\ out.body.shape = "message"
    /\ out.body.content.t = "string"

\* C5: in part_000, a 5xx answer at (i, r) with r < maxRetries, whatever its
\* body, is followed by an attempt at (i, r + 1), and when that attempt is
\* answered with a completion text the call returns that text.
C5_ServerErrorRetried ==
    [][ (ver = "part_000" /\ cpc = "fetch" /\ cpc' # "fetch")
          => /\ (~last'.out.net /\ last'.out.status >= 500
                   /\ last'.retryCount < maxRetries)
                  => /\ cpc' = "sleeping"
                     /\ modelIndex' = last'.modelIndex
                     /\ retryCount' = last'.retryCount + 1
             /\ (Got5xx /\ SuccessWithText(last'.out))
                  => /\ cpc' = "returned"
                     /\ result'.value = last'.out.body.content ]_vars

\* C6: in part_000, an answer with a status that is neither ok, 429 nor 5xx
\* (here with a body that parses, so that it carries an error message) ends
\* the call at once with the upstream API error, whatever the message says.
C6_ClientErrorFailsAtOnce ==
    (ver = "part_000" /\ AfterAttempt /\ ~last.out.net /\ last.out.body.json
       /\ ~Ok(last.out.status) /\ last.out.status # 429
       /\ last.out.status < 500)
        => /\ cpc = "thrown"
           /\ Includes(result.error, "OpenRouter API error")

\* the answer is ok and parses, and choices[0].message.content is absent
ContentAbsent(out) ==
    /\ ~out.net
    /\ Ok(out.status)
    /\ out.body.json
    /\ (out.body.shape # "message" \/ out.body.content = Undefined)

\* C7: in both versions, an ok answer without choices[0].message.content
\* makes the call fail, and whatever the call returns is the text the
\* upstream sent.
C7_MissingContentFails ==
    /\ (AfterAttempt /\ ContentAbsent(last.out)) => cpc = "thrown"
    /\ cpc = "returned"
         => /\ result.value.t = "string"
            /\ result.value = last.out.body.content

\* C8: in both versions, a rejected fetch at (i, r) is retried at (i, r + 1)
\* after baseDelay * 2^r while r < maxRetries, and is thrown to the caller
\* when r = maxRetries.
C8_NetworkFailureRetried ==
    (AfterAttempt /\ last.out.net)
        => IF last.retryCount < maxRetries
           THEN /\ cpc = "sleeping"
                /\ modelIndex = last.modelIndex
                /\ retryCount = last.retryCount + 1
                /\ delay = backoffDelay(last.retryCount)
           ELSE /\ cpc = "thrown"
                /\ result.error = FetchFailed

(***************************************************************************)
(* Properties of the routes                                                *)
(***************************************************************************)
\* the field is missing, not a string, empty or made of white space only
InvalidField(v) ==
    \/ v.t # "string"
    \/ \A i \in 1..Len(v.s) : v.s[i].ch \in WhiteSpace

\* C9: in both versions, /analyze and /recap answer a request whose field is
\* missing, not a string, empty or white space with one response of status
\* 400, and callOpenRouter is never called for it.
C9_InvalidInputRejectedLocally ==
    (route \in {"analyze", "recap"} /\ InvalidField(field))
        => /\ hpc = "done"
           /\ Len(responses) = 1
           /\ responses[1].status = 400
           /\ cpc = "idle"
           /\ nAttempts = 0

\* C9 witness: a white-space-only field was rejected.
C9_Witness ==
    /\ route \in {"analyze", "recap"}
    /\ field.t = "string"
    /\ field.s # <<>>
    /\ InvalidField(field)
    /\ hpc = "done"

\* the transcribed text is a string with a character that is not white space
NonBlankText(v) ==
    v.t = "string" /\ \E i \in 1..Len(v.s) : v.s[i] \notin WhiteSpace

\* C10: in both versions, when transcribeAudio returned, the request ends
\* with fs.unlink called on the temp file, for empty and for non-empty text;
\* one response was sent, and it is 200 with the text when the text is not
\* blank, whether or not the unlink removed the file.
C10_TempFileUnlinked ==
    (route = "transcribe" /\ hpc = "done" /\ transcript.kind = "return")
        => /\ unlinkTried
           /\ Len(responses) = 1
           /\ NonBlankText(transcript.value)
                => /\ responses[1].status = 200
                   /\ responses[1].text = transcript.value

\* C10 witness: the text was blank and the unlink failed.
C10_Witness ==
    /\ route = "transcribe"
    /\ hpc = "done"
    /\ transcript.kind = "return"
    /\ transcript.value.t = "string"
    /\ ~NonBlankText(transcript.value)
    /\ unlinkTried
    /\ file = "present"

(***************************************************************************)
(* Sentiment extraction on its own: /analyze resumed on every completion   *)
(* text of up to MaxTextLen tokens, returned by a first successful fetch.  *)
(***************************************************************************)
MaxTextLen == 3

TextTokens ==
    {"[SENTIMENT: negative]", "[sentiment:POSITIVE]", " ", "\n", "Text"}

Texts == UNION { [1..n -> TextTokens] : n \in 0..MaxTextLen }

\* the answer 200 {choices: [{message: {content: s}}]}
Completion(s) == Response(200, Body(TRUE, Undefined, "message", Str(s)))

\* the state of /analyze when the first fetch of callOpenRouter was answered
\* with the completion text s, and callOpenRouter settled
InitText ==
    /\ ver \in Versions
    /\ hpc = "awaitCall"
    /\ route = "analyze"
    /\ field = Str(<< Run(" ", 1), Run("x", 3), Run("\n", 1) >>)
    /\ userMessage = field
    /\ responses = <<>>
    /\ \E s \in Texts :
          /\ last = [modelIndex |-> 0, retryCount |-> 0, out |-> Completion(s)]
          /\ result = IF ver = "part_000"
                      THEN invocationA(0, 0, Completion(s))
                      ELSE invocationS(0, 0, Completion(s))
    /\ cpc = "returned"
    /\ modelIndex = 0
    /\ retryCount = 0
    /\ delay = 0
    /\ attempted = {<<0, 0>>}
    /\ nAttempts = 1
    /\ repeated = FALSE
    /\ all429 = FALSE
    /\ file = "none"
    /\ transcript = NoResult
    /\ unlinkTried = FALSE

NextText ==
    \/ analyzeResumeA
    \/ analyzeResumeS

SpecText == InitText /\ [][NextText]_vars

IsTag(tok) == tok \in PositiveTags \cup NegativeTags

HasNoTag(s) == \A i \in 1..Len(s) : ~IsTag(s[i])

\* the polarity a tag names, in lower case
TagPolarity(tok) == IF tok \in PositiveTags THEN "positive" ELSE "negative"

\* /analyze answered 200 for the completion text callOpenRouter returned
AnalyzeSucceeded ==
    /\ route = "analyze"
    /\ hpc = "done"
    /\ result.kind = "return"
    /\ result.value.t = "string"

\* C11 (as claimed): the response of /analyze to a completion text s has
\* nature positive or negative; when s begins with a tag, nature is the
\* tag's polarity in lower case and analysis is the text after the tag;
\* when s has no tag, nature is positive and analysis is s unchanged.
C11_AnalysisUnchangedWithoutTag ==
    AnalyzeSucceeded
        => LET s == result.value.s
               r == responses[1]
           IN  /\ r.status = 200
               /\ r.nature \in {"positive", "negative"}
               /\ (s # <<>> /\ IsTag(s[1]))
                    => /\ r.nature = TagPolarity(s[1])
                       /\ r.text = Str(Trim(Tail(s)))
               /\ HasNoTag(s) => (r.nature = "positive" /\ r.text = Str(s))

\* C11 (amended): as claimed, but when s has no tag the analysis is s with
\* its leading and trailing white space trimmed.
C11_SentimentExtraction ==
    AnalyzeSucceeded
        => LET s == result.value.s
               r == responses[1]
           IN  /\ r.status = 200
               /\ r.nature \in {"positive", "negative"}
               /\ (s # <<>> /\ IsTag(s[1]))
                    => /\ r.nature = TagPolarity(s[1])
                       /\ r.text = Str(Trim(Tail(s)))
               /\ HasNoTag(s)
                    => (r.nature = "positive" /\ r.text = Str(Trim(s)))

\* C11 witness: a text that begins with an upper-case tag followed by white
\* space was analysed.
C11_Witness ==
    /\ AnalyzeSucceeded
    /\ result.value.s = <<"[sentiment:POSITIVE]", "\n", "Text">>
    /\ responses[1].nature = "positive"
    /\ responses[1].text = Str(<<"Text">>)

(***************************************************************************)
(* Properties of /analyze and /recap after the completion call             *)
(***************************************************************************)
\* the completion call failed: it threw, or the upstream's ok answer was
\* malformed (without choices[0].message.content)
CallFailed ==
    \/ cpc = "thrown"
    \/ (cpc = "returned" /\ ContentAbsent(last.out))

\* the completion call returned the completion text the upstream sent
ReturnedCompletionText ==
    /\ cpc = "returned"
    /\ result.value.t = "string"
    /\ SuccessWithText(last.out)
    /\ result.value = last.out.body.content

\* C12: in both versions, /analyze and /recap send exactly one response per
\* request; when the completion call failed it has a status that is not
\* 2xx, an error and a message; a 200 success response is sent only when
\* the completion call returned completion text.
C12_FailuresSurface ==
    (route \in {"analyze", "recap"} /\ hpc = "done" /\ cpc # "idle")
        => /\ Len(responses) = 1
           /\ CallFailed
                => /\ ~Ok(responses[1].status)
                   /\ ~responses[1].success
                   /\ responses[1].error # ""
                   /\ responses[1].message # <<>>
           /\ (responses[1].status = 200 /\ responses[1].success)
                => ReturnedCompletionText

\* C13: in part_000, within one call no (modelIndex, retryCount) pair is
\* fetched twice, retryCount never exceeds maxRetries and every fetched pair
\* lies in the N * (maxRetries + 1) pairs of the chain, so the call ends
\* after at most N * (maxRetries + 1) attempts.
C13_BoundedStateMachine ==
    ver = "part_000"
        => /\ ~repeated
           /\ retryCount <= maxRetries
           /\ attempted \subseteq ((0..(N - 1)) \X (0..maxRetries))
           /\ nAttempts <= N * (maxRetries + 1)

====
